---- MODULE Spec2Model ----
(***************************************************************************)
(* Model of monte_carlo_12_queens.py: the placement validator is_safe,     *)
(* the exact node counter backtracking_count_nodes and the Monte Carlo     *)
(* estimator monte_carlo_estimate.                                         *)
(*                                                                         *)
(* A board is a function from 0..n-1 to columns, -1 standing for the       *)
(* unplaced sentinel of the source ([-1] * n; the empty list for n <= 0).  *)
(* Three specifications share the variables:                               *)
(*   SpecSafe  one call of is_safe on inputs drawn from bounded sets,      *)
(*   SpecBT    backtracking_count_nodes(n), one step per source statement  *)
(*             group of the nested backtrack, recursion as a stack,        *)
(*   SpecMC    a caller invoking monte_carlo_estimate repeatedly on the    *)
(*             process-wide generator of module random.                    *)
(***************************************************************************)
EXTENDS Integers, Sequences, FiniteSets, TLC

VARIABLES
    pc,          \* position of the running function
    n,           \* board size argument
    board,       \* the board list
    row,         \* is_safe's row argument / the estimator's row loop variable
    col,         \* is_safe's col argument
    result,      \* is_safe's return value
    node_count,  \* node_count[0]
    solutions,   \* solutions[0]
    stack,       \* activation records of backtrack, innermost last
    num_trials,  \* estimator argument
    seed,        \* estimator argument: <<>> for None, <<s>> for the seed s
    rng,         \* state of the process-wide generator of module random
    trial,       \* the estimator's trial loop counter
    estimate,    \* the estimator's accumulator
    product,     \* the estimator's running product of branching factors
    estimates,   \* the estimator's list of per-trial estimates
    average,     \* the returned average, as a reduced fraction <<num, den>>
    ref          \* history: at most one earlier seeded invocation and its result

vars == <<pc, n, board, row, col, result, node_count, solutions, stack,
          num_trials, seed, rng, trial, estimate, product, estimates, average, ref>>

safeVars == <<row, col, result>>
btVars == <<node_count, solutions, stack>>
mcVars == <<num_trials, seed, rng, trial, estimate, product, estimates, average, ref>>

\* ---------------------------------------------------------------- bounds

MaxSafeN == 4
MaxBtN == 8
MaxMcN == 5
MaxTrials == 2
NumSeeds == 2

\* --------------------------------------------------------------- helpers

Abs(x) == IF x < 0 THEN -x ELSE x

\* [-1] * n : the empty list when n <= 0
FreshBoard(size) == [i \in 0..(size - 1) |-> -1]

RECURSIVE Gcd(_, _)
Gcd(a, b) == IF b = 0 THEN Abs(a) ELSE Gcd(b, a % b)

\* a / b on numbers, kept exact as a reduced fraction (b > 0)
Fraction(a, b) == LET g == Gcd(a, b) IN <<a \div g, b \div g>>

RECURSIVE SumSeq(_)
SumSeq(s) == IF Len(s) = 0 THEN 0 ELSE Head(s) + SumSeq(Tail(s))

\* ---------------------------------------------------------------- is_safe

\* Mutants of the loop body of is_safe.
RECURSIVE is_safe_no_column(_, _, _, _, _)
is_safe_no_column(b, r, c, size, i) ==
    IF i >= r THEN TRUE
    ELSE IF Abs(b[i] - c) = Abs(i - r) THEN FALSE
    ELSE is_safe_no_column(b, r, c, size, i + 1)

RECURSIVE is_safe_one_diagonal(_, _, _, _, _)
is_safe_one_diagonal(b, r, c, size, i) ==
    IF i >= r THEN TRUE
    ELSE IF b[i] = c THEN FALSE
    ELSE IF b[i] - c = Abs(i - r) THEN FALSE
    ELSE is_safe_one_diagonal(b, r, c, size, i + 1)

\* for i in range(row): from index i on
RECURSIVE is_safe_from(_, _, _, _, _)
is_safe_from(b, r, c, size, i) ==
    IF i >= r THEN TRUE
    ELSE IF b[i] = c THEN FALSE
    ELSE IF Abs(b[i] - c) = Abs(i - r) THEN FALSE
    ELSE is_safe_from(b, r, c, size, i + 1)

is_safe(b, r, c, size) == is_safe_from(b, r, c, size, 0)

\* for col in range(n): from column c on, valid being the list built so far
RECURSIVE get_valid_from(_, _, _, _, _)
get_valid_from(b, r, size, c, valid) ==
    IF c >= size THEN valid
    ELSE get_valid_from(b, r, size, c + 1,
                        IF is_safe(b, r, c, size) THEN Append(valid, c) ELSE valid)

get_valid_positions(b, r, size) == get_valid_from(b, r, size, 0, <<>>)

\* ------------------------------------------------ SpecSafe: one is_safe call

\* Values of the variables a specification does not use.
IdleSafe == row = 0 /\ col = 0 /\ result = FALSE
IdleBT == node_count = 0 /\ solutions = 0 /\ stack = <<>>
IdleMC ==
    /\ num_trials = 0 /\ seed = <<>> /\ rng = [seed |-> <<>>, pos |-> 0]
    /\ trial = 0 /\ estimate = 0
    /\ product = 0 /\ estimates = <<>> /\ average = <<0, 1>> /\ ref = {}

\* Boards is_safe is called on: rows below r hold columns, the others anything.
SafeBoards(size, r) ==
    {b \in [0..(size - 1) -> -1..(size - 1)] : \A i \in 0..(r - 1) : b[i] >= 0}

InitSafe ==
    /\ pc = "safe_call"
    /\ n \in 1..MaxSafeN
    /\ row \in 0..(n - 1)
    /\ col \in 0..(n - 1)
    /\ board \in SafeBoards(n, row)
    /\ result = FALSE
    /\ IdleBT
    /\ IdleMC

\* result = is_safe(board, row, col, n); the list is only read
SafeCall ==
    /\ pc = "safe_call"
    /\ result' = is_safe(board, row, col, n)
    /\ pc' = "safe_returned"
    /\ UNCHANGED <<n, board, row, col>>
    /\ UNCHANGED btVars
    /\ UNCHANGED mcVars

NextSafe == SafeCall

SpecSafe == InitSafe /\ [][NextSafe]_vars

\* ------------------------------------- SpecBT: backtracking_count_nodes(n)

\* An activation of backtrack(board, row): its row, the position of its column
\* loop, and (history) the board it was entered with.
Frame(r, b) == [row |-> r, col |-> 0, entry |-> b]

Top == stack[Len(stack)]

SetTopCol(c) == [stack EXCEPT ![Len(stack)] = [@ EXCEPT !.col = c]]

InitBT ==
    /\ pc = "bt_start"
    /\ n \in -1..MaxBtN
    /\ board = <<>>
    /\ IdleSafe
    /\ IdleBT
    /\ IdleMC

\* node_count = [0]; solutions = [0]; board = [-1] * n; backtrack(board, 0)
BtStart ==
    /\ pc = "bt_start"
    /\ node_count' = 0
    /\ solutions' = 0
    /\ board' = FreshBoard(n)
    /\ stack' = <<Frame(0, FreshBoard(n))>>
    /\ pc' = "bt_enter"
    /\ UNCHANGED n
    /\ UNCHANGED safeVars
    /\ UNCHANGED mcVars

\* node_count[0] += 1; if row == n: solutions[0] += 1; return
BtEnter ==
    /\ pc = "bt_enter"
    /\ node_count' = node_count + 1
    /\ IF Top.row = n
       THEN solutions' = solutions + 1 /\ pc' = "bt_return"
       ELSE solutions' = solutions /\ pc' = "bt_loop"
    /\ UNCHANGED <<n, board, stack>>
    /\ UNCHANGED safeVars
    /\ UNCHANGED mcVars

\* Mutant of BtLoop: the column loop stops one column early, range(n - 1).
BtLoopShort ==
    /\ pc = "bt_loop"
    /\ IF Top.col >= n - 1
       THEN pc' = "bt_return" /\ UNCHANGED <<board, stack>>
       ELSE IF is_safe(board, Top.row, Top.col, n)
            THEN /\ board' = [board EXCEPT ![Top.row] = Top.col]
                 /\ stack' = Append(stack, Frame(Top.row + 1, board'))
                 /\ pc' = "bt_enter"
            ELSE /\ stack' = SetTopCol(Top.col + 1)
                 /\ pc' = "bt_loop"
                 /\ UNCHANGED board
    /\ UNCHANGED <<n, node_count, solutions>>
    /\ UNCHANGED safeVars
    /\ UNCHANGED mcVars

\* for col in range(n): if is_safe(board, row, col, n): board[row] = col;
\* backtrack(board, row + 1).  The loop exhausted, the call returns.
BtLoop ==
    /\ pc = "bt_loop"
    /\ IF Top.col >= n
       THEN pc' = "bt_return" /\ UNCHANGED <<board, stack>>
       ELSE IF is_safe(board, Top.row, Top.col, n)
            THEN /\ board' = [board EXCEPT ![Top.row] = Top.col]
                 /\ stack' = Append(stack, Frame(Top.row + 1, board'))
                 /\ pc' = "bt_enter"
            ELSE /\ stack' = SetTopCol(Top.col + 1)
                 /\ pc' = "bt_loop"
                 /\ UNCHANGED board
    /\ UNCHANGED <<n, node_count, solutions>>
    /\ UNCHANGED safeVars
    /\ UNCHANGED mcVars

\* The return of an activation: to the statement after the recursive call, or,
\* from the outermost one, to backtracking_count_nodes, which returns the counts.
BtReturn ==
    /\ pc = "bt_return"
    /\ stack' = SubSeq(stack, 1, Len(stack) - 1)
    /\ pc' = IF Len(stack) = 1 THEN "bt_done" ELSE "bt_undo"
    /\ UNCHANGED <<n, board, node_count, solutions>>
    /\ UNCHANGED safeVars
    /\ UNCHANGED mcVars

\* Mutant of BtUndo: the placement is not taken back.
BtUndoNoRestore ==
    /\ pc = "bt_undo"
    /\ stack' = SetTopCol(Top.col + 1)
    /\ pc' = "bt_loop"
    /\ UNCHANGED <<n, board, node_count, solutions>>
    /\ UNCHANGED safeVars
    /\ UNCHANGED mcVars

\* board[row] = -1, and on to the next column
BtUndo ==
    /\ pc = "bt_undo"
    /\ board' = [board EXCEPT ![Top.row] = -1]
    /\ stack' = SetTopCol(Top.col + 1)
    /\ pc' = "bt_loop"
    /\ UNCHANGED <<n, node_count, solutions>>
    /\ UNCHANGED safeVars
    /\ UNCHANGED mcVars

NextBT == BtStart \/ BtEnter \/ BtLoop \/ BtReturn \/ BtUndo

SpecBT == InitBT /\ [][NextBT]_vars

\* --------------------------------------- SpecMC: monte_carlo_estimate calls

\* The generator of module random (the Mersenne Twister) is a stream of 32-bit
\* words fixed by the seed.  random.choice(seq) is seq[_randbelow(len(seq))], and
\* _randbelow(m) draws getrandbits(k), k = m.bit_length(), until the value is
\* below m; getrandbits(k) takes one word and keeps its top k bits.  MtWords[s+1]
\* holds the top 4 bits of the first words after random.seed(s), s = 0..3, which
\* decide every draw among fewer than 16 items.  A generator seeded from the
\* system's entropy, used by code outside the estimator, or past the tabulated
\* words, is in a state the model does not track (Untracked): its words are
\* arbitrary, so it can yield any item.
MtWords ==
   <<
      <<13, 6, 12, 14, 6, 0, 4, 15, 8, 7, 6, 14, 12, 13, 4, 15,
        7, 5, 9, 14, 14, 3, 8, 2, 4, 2, 12, 1, 9, 12, 4, 15,
        14, 8, 15, 11, 12, 9, 14, 2, 4, 1, 11, 1, 14, 13, 10, 5,
        7, 8, 1, 5, 6, 5, 9, 10, 14, 3, 15, 8, 7, 7, 13, 8>>,
      <<2, 9, 13, 12, 12, 1, 4, 1, 7, 12, 7, 7, 10, 6, 12, 3,
        1, 7, 0, 14, 13, 6, 6, 9, 12, 12, 0, 11, 7, 4, 11, 12,
        3, 9, 15, 1, 14, 5, 0, 0, 0, 10, 8, 0, 15, 14, 6, 10,
        3, 15, 6, 11, 0, 8, 3, 12, 7, 15, 7, 8, 3, 5, 3, 10>>,
      <<15, 13, 15, 13, 0, 1, 1, 5, 13, 2, 11, 12, 10, 13, 4, 4,
        9, 3, 9, 0, 9, 10, 2, 15, 6, 10, 6, 12, 11, 13, 15, 8,
        15, 5, 8, 14, 7, 8, 4, 14, 0, 13, 0, 5, 7, 14, 5, 14,
        6, 6, 14, 14, 8, 2, 8, 2, 3, 3, 0, 2, 5, 2, 2, 8>>,
      <<3, 9, 8, 2, 5, 14, 9, 7, 10, 9, 1, 9, 0, 14, 13, 7,
        4, 8, 3, 3, 15, 11, 7, 8, 13, 8, 7, 6, 10, 13, 2, 3,
        10, 2, 13, 14, 8, 6, 11, 0, 10, 12, 1, 2, 12, 15, 9, 0,
        4, 12, 0, 13, 13, 4, 7, 9, 11, 14, 14, 6, 11, 12, 14, 6>>
   >>

WordBits == 4

Untracked == [seed |-> <<>>, pos |-> 0]

\* random.seed(s)
SeedState(s) ==
    IF s + 1 \in DOMAIN MtWords THEN [seed |-> <<s>>, pos |-> 0] ELSE Untracked

RECURSIVE BitLength(_)
BitLength(m) == IF m = 0 THEN 0 ELSE 1 + BitLength(m \div 2)

RECURSIVE Pow2(_)
Pow2(k) == IF k = 0 THEN 1 ELSE 2 * Pow2(k - 1)

\* getrandbits(k) on the word at position p of the stream of seed s
GetRandBits(s, p, k) == MtWords[s + 1][p + 1] \div Pow2(WordBits - k)

\* _randbelow(m) from position p of the stream of seed s: the value drawn and
\* the generator state left; an untracked state once the table is used up.
RECURSIVE RandBelow(_, _, _)
RandBelow(s, p, m) ==
    IF p >= Len(MtWords[s + 1]) \/ BitLength(m) > WordBits
    THEN [known |-> FALSE, value |-> 0, rng |-> Untracked]
    ELSE LET r == GetRandBits(s, p, BitLength(m))
         IN  IF r < m
             THEN [known |-> TRUE, value |-> r, rng |-> [seed |-> <<s>>, pos |-> p + 1]]
             ELSE RandBelow(s, p + 1, m)

\* random.choice(valid) in generator state r: the items it can return, each
\* with the generator state it leaves.
RandomChoice(valid, r) ==
    LET d == IF r.seed = <<>>
             THEN [known |-> FALSE, value |-> 0, rng |-> Untracked]
             ELSE RandBelow(r.seed[1], r.pos, Len(valid))
    IN  IF d.known
        THEN {[item |-> valid[d.value + 1], rng |-> d.rng]}
        ELSE {[item |-> valid[i], rng |-> Untracked] : i \in 1..Len(valid)}

Seeds == 0..(NumSeeds - 1)

SeedArgs == {<<>>} \cup {<<s>> : s \in Seeds}

\* Mutant of RowUpdate: the accumulator is advanced before the product.
RowUpdateStale(est, prod, m) == [product |-> prod * m, estimate |-> est + prod]

\* product *= m; estimate += product
RowUpdate(est, prod, m) == [product |-> prod * m, estimate |-> est + prod * m]

InitMC ==
    /\ pc = "mc_idle"
    /\ n = 0
    /\ board = <<>>
    /\ rng = Untracked
    /\ num_trials = 0 /\ seed = <<>> /\ trial = 0 /\ estimate = 0
    /\ product = 0 /\ estimates = <<>> /\ average = <<0, 1>> /\ ref = {}
    /\ IdleSafe
    /\ IdleBT

\* Mutant of McCall: the generator is not re-seeded.
McCallNoSeed ==
    /\ pc = "mc_idle"
    /\ \E nn \in -1..MaxMcN, k \in -1..MaxTrials, s \in SeedArgs :
          /\ n' = nn
          /\ num_trials' = k
          /\ seed' = s
    /\ estimates' = <<>>
    /\ trial' = 0
    /\ pc' = "mc_trial"
    /\ UNCHANGED <<board, row, rng, estimate, product, average, ref>>
    /\ UNCHANGED <<col, result>>
    /\ UNCHANGED btVars

\* monte_carlo_estimate(n, num_trials, seed) is called:
\* if seed is not None: random.seed(seed); estimates = []
McCall ==
    /\ pc = "mc_idle"
    /\ \E nn \in -1..MaxMcN, k \in -1..MaxTrials, s \in SeedArgs :
          /\ n' = nn
          /\ num_trials' = k
          /\ seed' = s
          /\ rng' = IF s # <<>> THEN SeedState(s[1]) ELSE rng
    /\ estimates' = <<>>
    /\ trial' = 0
    /\ pc' = "mc_trial"
    /\ UNCHANGED <<board, row, estimate, product, average, ref>>
    /\ UNCHANGED <<col, result>>
    /\ UNCHANGED btVars

\* Mutant of McTrial: the root node is not counted.
McTrialNoRoot ==
    /\ pc = "mc_trial"
    /\ IF trial < num_trials
       THEN /\ board' = FreshBoard(n)
            /\ estimate' = 0
            /\ product' = 1
            /\ row' = 0
            /\ pc' = "mc_row"
       ELSE /\ pc' = "mc_finish"
            /\ UNCHANGED <<board, estimate, product, row>>
    /\ UNCHANGED <<n, num_trials, seed, rng, trial, estimates, average, ref>>
    /\ UNCHANGED <<col, result>>
    /\ UNCHANGED btVars

\* Mutant of McTrial: one board is made before the trial loop and shared.
McTrialSharedBoard ==
    /\ pc = "mc_trial"
    /\ IF trial < num_trials
       THEN /\ board' = IF trial = 0 THEN FreshBoard(n) ELSE board
            /\ estimate' = 1
            /\ product' = 1
            /\ row' = 0
            /\ pc' = "mc_row"
       ELSE /\ pc' = "mc_finish"
            /\ UNCHANGED <<board, estimate, product, row>>
    /\ UNCHANGED <<n, num_trials, seed, rng, trial, estimates, average, ref>>
    /\ UNCHANGED <<col, result>>
    /\ UNCHANGED btVars

\* for _ in range(num_trials): board = [-1] * n; estimate = 1; product = 1
McTrial ==
    /\ pc = "mc_trial"
    /\ IF trial < num_trials
       THEN /\ board' = FreshBoard(n)
            /\ estimate' = 1
            /\ product' = 1
            /\ row' = 0
            /\ pc' = "mc_row"
       ELSE /\ pc' = "mc_finish"
            /\ UNCHANGED <<board, estimate, product, row>>
    /\ UNCHANGED <<n, num_trials, seed, rng, trial, estimates, average, ref>>
    /\ UNCHANGED <<col, result>>
    /\ UNCHANGED btVars

\* One pass of "for row in range(n)"; row = n stands for the exhausted range.
\* m == 0 breaks out; otherwise the product and the accumulator advance and a
\* queen is put on a valid column chosen by random.choice.
McRow ==
    /\ pc = "mc_row"
    /\ IF row >= n
       THEN /\ pc' = "mc_append"
            /\ UNCHANGED <<board, row, rng, estimate, product>>
       ELSE LET valid_positions == get_valid_positions(board, row, n)
                m == Len(valid_positions)
            IN  IF m = 0
                THEN /\ pc' = "mc_append"
                     /\ UNCHANGED <<board, row, rng, estimate, product>>
                ELSE /\ product' = RowUpdate(estimate, product, m).product
                     /\ estimate' = RowUpdate(estimate, product, m).estimate
                     /\ \E d \in RandomChoice(valid_positions, rng) :
                           /\ board' = [board EXCEPT ![row] = d.item]
                           /\ rng' = d.rng
                     /\ row' = row + 1
                     /\ pc' = "mc_row"
    /\ UNCHANGED <<n, num_trials, seed, trial, estimates, average, ref>>
    /\ UNCHANGED <<col, result>>
    /\ UNCHANGED btVars

\* Mutant of McAppend: the estimate of a trial that met a dead end is dropped.
McAppendSkipDeadEnd ==
    /\ pc = "mc_append"
    /\ estimates' = IF row < n THEN estimates ELSE Append(estimates, estimate)
    /\ trial' = trial + 1
    /\ pc' = "mc_trial"
    /\ UNCHANGED <<n, board, row, num_trials, seed, rng, estimate, product, average, ref>>
    /\ UNCHANGED <<col, result>>
    /\ UNCHANGED btVars

\* estimates.append(estimate), and on to the next trial
McAppend ==
    /\ pc = "mc_append"
    /\ estimates' = Append(estimates, estimate)
    /\ trial' = trial + 1
    /\ pc' = "mc_trial"
    /\ UNCHANGED <<n, board, row, num_trials, seed, rng, estimate, product, average, ref>>
    /\ UNCHANGED <<col, result>>
    /\ UNCHANGED btVars

\* avg_time = (end_time - start_time) / num_trials raises ZeroDivisionError for
\* num_trials = 0; sum(estimates) / len(estimates) raises it for an empty list;
\* otherwise the function returns.  The elapsed times are not modelled.
McFinish ==
    /\ pc = "mc_finish"
    /\ IF num_trials = 0 \/ Len(estimates) = 0
       THEN pc' = "mc_error" /\ UNCHANGED average
       ELSE /\ average' = Fraction(SumSeq(estimates), Len(estimates))
            /\ pc' = "mc_returned"
    /\ UNCHANGED <<n, board, row, num_trials, seed, rng, trial, estimate, product,
                   estimates, ref>>
    /\ UNCHANGED <<col, result>>
    /\ UNCHANGED btVars

\* The caller goes on after a return and keeps the result of this seeded
\* invocation for later comparison (history); the locals are gone.
McRemember ==
    /\ pc = "mc_returned"
    /\ seed # <<>>
    /\ ref = {}
    /\ ref' = {[n |-> n, num_trials |-> num_trials, seed |-> seed,
                estimates |-> estimates]}
    /\ pc' = "mc_idle"
    /\ n' = 0 /\ board' = <<>> /\ row' = 0
    /\ num_trials' = 0 /\ seed' = <<>> /\ trial' = 0 /\ estimate' = 0
    /\ product' = 0 /\ estimates' = <<>> /\ average' = <<0, 1>>
    /\ UNCHANGED rng
    /\ UNCHANGED <<col, result>>
    /\ UNCHANGED btVars

\* The caller goes on after the return or the exception; the locals are gone.
McResume ==
    /\ pc \in {"mc_returned", "mc_error"}
    /\ pc' = "mc_idle"
    /\ n' = 0 /\ board' = <<>> /\ row' = 0
    /\ num_trials' = 0 /\ seed' = <<>> /\ trial' = 0 /\ estimate' = 0
    /\ product' = 0 /\ estimates' = <<>> /\ average' = <<0, 1>>
    /\ UNCHANGED <<rng, ref>>
    /\ UNCHANGED <<col, result>>
    /\ UNCHANGED btVars

\* Between two invocations the caller or other code uses module random
\* (draws, or random.seed as main does): the generator is then in a state
\* the model does not track.
McOtherDraws ==
    /\ pc = "mc_idle"
    /\ rng # Untracked
    /\ rng' = Untracked
    /\ UNCHANGED <<pc, n, board, row, num_trials, seed, trial, estimate, product,
                   estimates, average, ref>>
    /\ UNCHANGED <<col, result>>
    /\ UNCHANGED btVars

NextMC ==
    \/ McCall
    \/ McTrial
    \/ McRow
    \/ McAppend
    \/ McFinish
    \/ McRemember
    \/ McResume
    \/ McOtherDraws

SpecMC == InitMC /\ [][NextMC]_vars

\* ------------------------------------------- expectation of one trial (C9)

FracAdd(x, y) == Fraction(x[1] * y[2] + y[1] * x[2], x[2] * y[2])

\* The expected final estimate of a trial that is at the head of the row loop
\* with board b, row r, accumulator est and product prod: the trial ends with
\* est when the range is exhausted or no column is valid, and otherwise goes on
\* from each valid column with probability 1 / m.
RECURSIVE ExpectedFrom(_, _, _, _, _)
RECURSIVE ExpectedSum(_, _, _, _, _, _, _)
ExpectedSum(b, r, size, valid, est, prod, i) ==
    IF i > Len(valid) THEN <<0, 1>>
    ELSE FracAdd(ExpectedFrom([b EXCEPT ![r] = valid[i]], r + 1, size, est, prod),
                 ExpectedSum(b, r, size, valid, est, prod, i + 1))

ExpectedFrom(b, r, size, est, prod) ==
    IF r >= size THEN <<est, 1>>
    ELSE LET valid == get_valid_positions(b, r, size)
             m == Len(valid)
         IN  IF m = 0 THEN <<est, 1>>
             ELSE LET u == RowUpdate(est, prod, m)
                      total == ExpectedSum(b, r, size, valid, u.estimate, u.product, 1)
                  IN  Fraction(total[1], total[2] * m)

\* board = [-1] * n; estimate = 1; product = 1
ExpectedEstimate(size) == ExpectedFrom(FreshBoard(size), 0, size, 1, 1)

\* ================================================================== claims

NonAttacking(b, upto) ==
    \A i, j \in 0..(upto - 1) :
        i < j => b[i] # b[j] /\ Abs(b[i] - b[j]) # j - i

Placed(b, size, upto) ==
    /\ DOMAIN b = 0..(size - 1)
    /\ \A i \in 0..(size - 1) :
          IF i < upto THEN b[i] \in 0..(size - 1) ELSE b[i] = -1

\* ---- C1
KnownSolutions ==
    [k \in {1, 2, 3, 4, 5, 6, 8} |->
        CASE k = 1 -> 1 [] k = 2 -> 0 [] k = 3 -> 0 [] k = 4 -> 2
          [] k = 5 -> 10 [] k = 6 -> 4 [] k = 8 -> 92]

\* C1: for n in {1,2,3,4,5,6,8} backtracking_count_nodes(n) returns the known
\* number of n-queens solutions, and for every n >= 1 its node count is at
\* least its solution count.
C1_KnownSolutionCounts ==
    pc = "bt_done" =>
        /\ n >= 1 => node_count >= solutions
        /\ n \in DOMAIN KnownSolutions => solutions = KnownSolutions[n]

C1_Witness == pc = "bt_done" /\ n = 8 /\ solutions = 92 /\ node_count = 2057

\* ---- C2
Attacked(b, r, c) ==
    \E i \in 0..(r - 1) : b[i] = c \/ Abs(b[i] - c) = Abs(i - r)

Masked(b, r) == [i \in DOMAIN b |-> IF i < r THEN b[i] ELSE -1]

C2_Result ==
    pc = "safe_returned" =>
        /\ result = ~Attacked(board, row, col)
        /\ result = is_safe(Masked(board, row), row, col, n)

\* C2: is_safe(board, row, col, n) is true iff no row i < row holds col or a
\* column on a diagonal of (row, col); the entries of board at indices >= row
\* do not affect the result; and the call leaves board as it was.
C2_IsSafeContract == []C2_Result /\ [][board' = board]_vars

C2_Witness ==
    /\ pc = "safe_returned"
    /\ row >= 2
    /\ result = TRUE
    /\ \E i \in row..(n - 1) : board[i] = col

\* ---- C3
Reflect(b, r, size) == [i \in DOMAIN b |-> IF i < r THEN size - 1 - b[i] ELSE b[i]]

\* C3: is_safe is invariant under the column reflection c -> n-1-c applied to
\* the placed rows of the board and to the candidate column.
C3_ReflectionInvariant ==
    pc = "safe_returned" =>
        result = is_safe(Reflect(board, row, n), row, n - 1 - col, n)

C3_Witness ==
    /\ pc = "safe_returned"
    /\ row >= 2
    /\ result = FALSE
    /\ \A i \in 0..(row - 1) : board[i] # col
    /\ \E i \in 0..(row - 1) : board[i] - col = row - i
    /\ \A i \in 0..(row - 1) : col - board[i] # row - i

\* ---- C4
SameCall(r) == r.n = n /\ r.num_trials = num_trials /\ r.seed = seed

\* C4: an invocation with a seed returns the per-trial estimates that an
\* earlier invocation with the same n, num_trials and seed returned, whatever
\* was drawn from the generator in between.
C4_SeededRunsRepeat ==
    pc = "mc_returned" =>
        \A r \in ref : SameCall(r) => estimates = r.estimates

C4_Witness ==
    /\ pc = "mc_returned"
    /\ n = MaxMcN
    /\ num_trials = MaxTrials
    /\ \E r \in ref : SameCall(r) /\ estimates = r.estimates
    /\ estimates[1] > n

\* ---- C5
\* C5 as claimed: monte_carlo_estimate(1, k, seed) returns the average 1 and
\* k estimates equal to 1.
C5_Original ==
    (pc = "mc_returned" /\ n = 1 /\ num_trials >= 1) =>
        /\ average = <<1, 1>>
        /\ Len(estimates) = num_trials
        /\ \A i \in 1..Len(estimates) : estimates[i] = 1

\* C5 (amended): for n = 1 and every k >= 1 and seed, monte_carlo_estimate
\* returns, without an error, the average 2 and k estimates equal to 2: the
\* root and the one node of row 0.
C5_SingleSquareEstimateIsTwo ==
    (pc \in {"mc_returned", "mc_error"} /\ n = 1 /\ num_trials >= 1) =>
        /\ pc = "mc_returned"
        /\ average = <<2, 1>>
        /\ Len(estimates) = num_trials
        /\ \A i \in 1..Len(estimates) : estimates[i] = 2

C5_Witness ==
    /\ pc = "mc_returned" /\ n = 1 /\ num_trials = MaxTrials
    /\ Len(estimates) = MaxTrials /\ seed # <<>>

\* ---- C6
\* C6: neither entry point returns a result for a negative n, nor the
\* estimator for num_trials <= 0.
C6_RejectsInvalidArguments ==
    /\ pc = "mc_returned" => n >= 0 /\ num_trials >= 1
    /\ pc = "bt_done" => n >= 0

\* ---- C7
\* C7: for n >= 0 and num_trials >= 1 the estimator returns num_trials
\* estimates, each an integer >= 1; within a trial the product is positive
\* and the accumulator is 1 for the root plus at least 1 for every row passed.
C7_EstimatesPositive ==
    /\ pc \in {"mc_row", "mc_append"} => product >= 1 /\ estimate >= 1 + row
    /\ (pc \in {"mc_returned", "mc_error"} /\ n >= 0 /\ num_trials >= 1) =>
          /\ pc = "mc_returned"
          /\ Len(estimates) = num_trials
          /\ \A i \in 1..Len(estimates) : estimates[i] \in Int /\ estimates[i] >= 1

C7_Witness ==
    /\ pc = "mc_returned" /\ n = MaxMcN /\ num_trials = MaxTrials
    /\ estimates[1] # estimates[2]

\* ---- C8
\* C8: at the entry of backtrack(board, row) exactly the rows below row hold a
\* column and the others hold -1; an activation returns with the board it was
\* entered with; the board is all -1 when the search has ended.
C8_BoardDiscipline ==
    /\ pc = "bt_enter" => Placed(board, n, Top.row)
    /\ pc = "bt_return" => board = Top.entry
    /\ pc = "bt_done" => board = FreshBoard(n)

C8_Witness ==
    /\ pc = "bt_return" /\ n >= 4
    /\ Top.row = 1 /\ Top.col >= n
    /\ board[0] = 1 /\ solutions >= 1

\* ---- C9
\* C9: the expected value of one trial estimate, each row's column drawn
\* uniformly among the valid ones, equals the node count that
\* backtracking_count_nodes(n) returns (every n >= 1 of the model, 1..5 among them).
C9_TrialIsUnbiased ==
    (pc = "bt_done" /\ n >= 1) => ExpectedEstimate(n) = <<node_count, 1>>

C9_Witness == pc = "bt_done" /\ n = 5 /\ node_count = 54 /\ ExpectedEstimate(n) = <<54, 1>>

\* ---- C10
\* C10: at the head of the row loop of a trial the rows below row hold pairwise
\* non-attacking queens and the others are -1 (so nothing of an earlier trial
\* is on the board); a trial that passed all n rows holds a complete valid
\* placement.
C10_TrialBoard ==
    /\ pc = "mc_row" => Placed(board, n, row) /\ NonAttacking(board, row)
    /\ (pc = "mc_append" /\ row = n) => Placed(board, n, n) /\ NonAttacking(board, n)

C10_Witness ==
    /\ pc = "mc_append" /\ n = MaxMcN /\ row = n /\ trial = 1
    /\ Placed(board, n, n)

====
